---- MODULE Spec2Model ----
(***************************************************************************)
(* Model of app.py, the Jira context-switching dashboard: the category     *)
(* resolver (map_category), the record normalizer (build_dataframe), the   *)
(* aggregation (compute_summaries) and the efficiency block of one script  *)
(* run; the sidebar's sprint discovery (fetch_active_sprint), the          *)
(* pagination loop of fetch_issues, and the session: the leave inputs, the *)
(* Reset and refresh buttons and the reruns they start.                    *)
(*                                                                         *)
(* Representation.  A Python str is a sequence of one-character strings,   *)
(* so that upper(), startswith(), slicing and substring tests are computed *)
(* character by character.  A JSON value of an issue is a tagged record:   *)
(* [t |-> "none"], [t |-> "str", s |-> chars], [t |-> "int", n |-> k],     *)
(* [t |-> "list", items |-> seq], [t |-> "dict", d |-> record]; a key that *)
(* is absent from a dict is absent from the DOMAIN of its record.          *)
(* Field identifiers and the classification mode are only ever compared,   *)
(* they are plain strings.                                                 *)
(***************************************************************************)
EXTENDS Integers, Sequences, FiniteSets, TLC

VARIABLES
    CATEGORY_SOURCE,   \* st.secrets category_source, lowercased (line 32)
    CUSTOMFIELD_ID,    \* st.secrets customfield_id (line 33)
    PRIMARY_CATS,      \* configured categories, uppercased (line 34)
    PROJECT_KEYS,      \* st.secrets project_keys (line 31)
    tzlocal,           \* tz.tzlocal(): the local offset from UTC, in hours
    mc_arg,            \* argument of the last direct call of map_category
    mc_ret,            \* what that call returned or raised
    tracker,           \* the issues the search API holds for the query
    leave_inputs,      \* st.session_state.leave_inputs (lines 19-21)
    widget,            \* the session's number_input values, by assignee;
                       \* Streamlit drops at the end of a run those of the
                       \* inputs the run did not render
    rendered,          \* the `value` each of them was last rendered with
    key_identity,      \* the installed Streamlit identifies a keyed widget by
                       \* its key alone (TRUE) or by all its parameters
    clicked,           \* the button whose click started this run
    interactions,      \* the user's interactions with the page so far
    last_reset,        \* the last Reset click that reached line 490, and
                       \* leave_inputs at the start of that run
    selected_project_filter,  \* the value of the selectbox of line 155
    available_statuses,       \* the value of the multiselect of line 229
    page,              \* what the browser shows: the leave input and Reset
                       \* button of an assignee, with the number in the input
                       \* and the `value` it was rendered with, and the
                       \* refresh button
    sprint_api,        \* what the board and sprint endpoints answer, by project
    selected_projects, \* lines 164, 166
    selected_sprints,  \* lines 202, 209, 221
    jql,               \* line 305: the query of the search request
    leave_step,        \* st.* calls of the leave loop made in this run
    request_failed,    \* a request of this run raised or answered non-200
    start_at,          \* line 311
    all_issues,        \* line 313
    fetch_pc,          \* position of fetch_issues: in its loop, returned, raised
    requests,          \* search requests fetch_issues has sent
    faithful,          \* every response so far was a page of `tracker` at the
                       \* requested offset, with total = len(tracker)
    pc,                \* position of the script run
    error,             \* the exception that ended the run, "" when none
    issues,            \* line 440
    df,                \* line 445: the normalized rows
    weekly_summary,    \* line 508
    per_day,           \* line 508
    user_summary,      \* line 508
    efficiency_df,     \* line 569: the efficiency records
    warnings           \* the st.warning calls of the efficiency block

config == <<CATEGORY_SOURCE, CUSTOMFIELD_ID, PRIMARY_CATS, PROJECT_KEYS, tzlocal>>
call == <<mc_arg, mc_ret>>
session == <<leave_inputs, widget, rendered, key_identity, clicked, interactions, last_reset,
            selected_project_filter, available_statuses>>
sidebar == <<sprint_api, selected_projects, selected_sprints, request_failed, jql>>
paging == <<start_at, all_issues, fetch_pc, requests, faithful>>
tables == <<weekly_summary, per_day, user_summary>>
efficiency == <<efficiency_df, warnings>>
vars == <<config, call, tracker, session, page, sidebar, paging, pc, leave_step, error,
          issues, df, tables, efficiency>>

(***************************************************************************)
(* Bounds of the model.                                                    *)
(***************************************************************************)
MaxLabels == 2        \* labels on one issue
MaxComponents == 2    \* components on one issue
MaxItems == 2         \* elements of a list-valued custom field
MaxIssues == 3        \* issues the search returns
MaxInteractions == 2  \* interactions of the user in one session
MaxTotal == 3         \* the largest total a search response reports
MaxPage == 2          \* the most issues in one search response

(***************************************************************************)
(* Python values.                                                          *)
(***************************************************************************)
None == [t |-> "none"]
PyStr(s) == [t |-> "str", s |-> s]
PyInt(n) == [t |-> "int", n |-> n]
PyList(xs) == [t |-> "list", items |-> xs]
PyDict(d) == [t |-> "dict", d |-> d]
EmptyDict == PyDict([k \in {} |-> None])

\* dict.get(k): the value, or None when the key is absent.
Get(x, k) == IF k \in DOMAIN x.d THEN x.d[k] ELSE None

\* dict.get(k, default)
GetOr(x, k, default) == IF k \in DOMAIN x.d THEN x.d[k] ELSE default

\* Python truthiness, as used by `or` and `if`.
Truthy(v) ==
    CASE v.t = "none" -> FALSE
      [] v.t = "str"  -> v.s # <<>>
      [] v.t = "int"  -> v.n # 0
      [] v.t = "list" -> v.items # <<>>
      [] v.t = "dict" -> DOMAIN v.d # {}

\* a or b
Or(a, b) == IF Truthy(a) THEN a ELSE b

LOWER == <<"a","b","c","d","e","f","g","h","i","j","k","l","m",
           "n","o","p","q","r","s","t","u","v","w","x","y","z">>
UPPER == <<"A","B","C","D","E","F","G","H","I","J","K","L","M",
           "N","O","P","Q","R","S","T","U","V","W","X","Y","Z">>

UpperChar(c) ==
    IF \E i \in 1..26 : LOWER[i] = c
    THEN UPPER[CHOOSE i \in 1..26 : LOWER[i] = c]
    ELSE c

\* str.upper()
Upper(s) == [i \in 1..Len(s) |-> UpperChar(s[i])]

DIGITS == <<"0","1","2","3","4","5","6","7","8","9">>

RECURSIVE NatStr(_)
\* str(n) of a non-negative int
NatStr(n) == IF n < 10 THEN <<DIGITS[n + 1]>>
             ELSE NatStr(n \div 10) \o <<DIGITS[(n % 10) + 1]>>

\* str(v) of a scalar, of None and of the empty list
Str(v) ==
    CASE v.t = "str"  -> v.s
      [] v.t = "int"  -> NatStr(v.n)
      [] v.t = "none" -> <<"N","o","n","e">>
      [] v.t = "list" /\ v.items = <<>> -> <<"[","]">>

\* `c in name` for two strs: c is a substring of name
IsSubstring(c, name) ==
    \E i \in 0..(Len(name) - Len(c)) : SubSeq(name, i + 1, i + Len(c)) = c

\* the elements of a sequence
Range(s) == {s[i] : i \in DOMAIN s}

\* the code points of the characters of a name, in increasing order
CODEPOINTS == <<" ", "-">> \o DIGITS \o UPPER \o LOWER

Ord(c) == CHOOSE i \in DOMAIN CODEPOINTS : CODEPOINTS[i] = c

RECURSIVE StrLess(_, _)
\* a < b for two strs, the order of sorted() and of a sorting groupby
StrLess(a, b) ==
    IF b = <<>> THEN FALSE
    ELSE IF a = <<>> THEN TRUE
    ELSE IF a[1] = b[1] THEN StrLess(Tail(a), Tail(b))
    ELSE Ord(a[1]) < Ord(b[1])

RECURSIVE Sorted(_)
\* sorted(S) for a set of strs
Sorted(S) ==
    IF S = {} THEN <<>>
    ELSE LET least == CHOOSE x \in S : \A y \in S \ {x} : StrLess(x, y)
         IN  <<least>> \o Sorted(S \ {least})

RECURSIVE Join(_, _)
\* sep.join(strs)
Join(sep, strs) ==
    IF strs = <<>> THEN <<>>
    ELSE IF Len(strs) = 1 THEN strs[1]
    ELSE strs[1] \o sep \o Join(sep, Tail(strs))

(***************************************************************************)
(* Results of a call: a returned value or a raised exception.              *)
(***************************************************************************)
Return(v) == [exc |-> "", val |-> v]
Raise(e) == [exc |-> e, val |-> <<>>]
NotCalled == [exc |-> "not called", val |-> <<>>]

OTHERS == <<"O","T","H","E","R","S">>

(***************************************************************************)
(* map_category (lines 245-276).                                           *)
(***************************************************************************)
\* `for c in PRIMARY_CATS: if <hit(c)>: return c` then `return "OTHERS"`,
\* from position i on.
RECURSIVE FirstCat(_, _)
FirstCat(i, hits) ==
    IF i > Len(PRIMARY_CATS) THEN OTHERS
    ELSE IF PRIMARY_CATS[i] \in hits THEN PRIMARY_CATS[i]
    ELSE FirstCat(i + 1, hits)

\* a mutant of MapLabels: the first label that is a primary category wins
MapLabelsByLabelOrder(f) ==
    LET lst == Or(Get(f, "labels"), PyList(<<>>)).items
        labels == [i \in DOMAIN lst |-> Upper(lst[i].s)]
        at == {i \in DOMAIN labels : labels[i] \in Range(PRIMARY_CATS)}
    IN  Return(IF at = {} THEN OTHERS
               ELSE labels[CHOOSE i \in at : \A j \in at : i <= j])

\* labels mode (lines 249-254); l.upper() raises AttributeError unless l is a str
MapLabels(f) ==
    LET lst == Or(Get(f, "labels"), PyList(<<>>)).items
    IN  IF \E i \in DOMAIN lst : lst[i].t # "str"
        THEN Raise("AttributeError")
        ELSE LET labels == [i \in DOMAIN lst |-> Upper(lst[i].s)]
             IN  Return(FirstCat(1, {c \in Range(PRIMARY_CATS) : c \in Range(labels)}))

\* a mutant of CompMatch: only a component name equal to the category matches
CompMatchEqualOnly(c, comps) == c \in Range(comps)

\* line 260: `c in comps or any(c in name for name in comps)`
CompMatch(c, comps) ==
    c \in Range(comps) \/ \E i \in DOMAIN comps : IsSubstring(c, comps[i])

\* components mode (lines 256-262)
MapComponents(f) ==
    LET lst == Or(Get(f, "components"), PyList(<<>>)).items
        nm(c) == GetOr(c, "name", PyStr(<<>>))
    IN  IF \E i \in DOMAIN lst : nm(lst[i]).t # "str"
        THEN Raise("AttributeError")
        ELSE LET comps == [i \in DOMAIN lst |-> Upper(nm(lst[i]).s)]
             IN  Return(FirstCat(1, {c \in Range(PRIMARY_CATS) : CompMatch(c, comps)}))

\* the value whose .upper() line 268, 270 or 272 takes
CustomFieldName(val) ==
    IF val.t = "dict"
    THEN Or(Or(Get(val, "value"), Get(val, "name")), PyStr(<<>>))
    ELSE IF val.t = "list" /\ val.items # <<>>
    THEN IF val.items[1].t = "dict"
         THEN Get(val.items[1], "value")
         ELSE PyStr(Str(val.items[1]))
    ELSE IF val.t # "none" THEN PyStr(Str(val)) ELSE PyStr(<<>>)

\* a mutant of MapCustomField: the name is returned without the membership test
MapCustomFieldRaw(f) ==
    LET x == CustomFieldName(Get(f, CUSTOMFIELD_ID))
    IN  IF x.t # "str" THEN Raise("AttributeError") ELSE Return(Upper(x.s))

\* custom-field mode (lines 264-273)
MapCustomField(f) ==
    LET val == Get(f, CUSTOMFIELD_ID)
        x == CustomFieldName(val)
    IN  IF x.t # "str" THEN Raise("AttributeError")
        ELSE LET name == Upper(x.s)
             IN  Return(IF name \in Range(PRIMARY_CATS) THEN name ELSE OTHERS)

map_category(issue_fields) ==
    IF CATEGORY_SOURCE = "labels" THEN MapLabels(issue_fields)
    ELSE IF CATEGORY_SOURCE = "components" THEN MapComponents(issue_fields)
    ELSE IF CATEGORY_SOURCE = "customfield" /\ CUSTOMFIELD_ID # ""
    THEN MapCustomField(issue_fields)
    ELSE Return(OTHERS)

(***************************************************************************)
(* build_dataframe (lines 344-398).                                        *)
(*                                                                         *)
(* The `updated` string of an issue that holds an ISO timestamp is the     *)
(* value [t |-> "iso", day, hour, off]: the wall-clock day and hour it     *)
(* spells and its UTC offset in hours.  Any other value of `updated` is a  *)
(* string pd.to_datetime cannot parse, or None.                            *)
(***************************************************************************)
Unassigned == <<"U","n","a","s","s","i","g","n","e","d">>
Unknown == <<"U","n","k","n","o","w","n">>
YTCS == <<"Y","T","C","S">>
DS == <<"D","S">>

\* s.startswith(prefix)
StartsWith(s, prefix) == Len(s) >= Len(prefix) /\ SubSeq(s, 1, Len(prefix)) = prefix

\* s[:n]
Prefix(s, n) == SubSeq(s, 1, IF Len(s) < n THEN Len(s) ELSE n)

\* pd.to_datetime(updated_raw, utc=True, errors="coerce"): the instant in
\* hours (UTC), or NaT
to_datetime(v) ==
    IF v.t = "iso"
    THEN [nat |-> FALSE, hours |-> v.day * 24 + v.hour - v.off]
    ELSE [nat |-> TRUE, hours |-> 0]

\* dt.tz_convert(tz.tzlocal()).date() (lines 366-367)
LocalDate(dt) == (dt.hours + tzlocal) \div 24

\* lines 349-351
AssigneeOf(f) ==
    LET a == Get(f, "assignee")
    IN  IF Truthy(a)
        THEN Or(Or(Get(a, "displayName"), Get(a, "name")), PyStr(Unassigned)).s
        ELSE Unassigned

\* lines 356-358
StatusOf(f) ==
    LET st == Get(f, "status")
    IN  IF Truthy(st) THEN GetOr(st, "name", PyStr(Unknown)).s ELSE Unknown

\* lines 373-381
ProjectOf(key) ==
    IF Truthy(key)
    THEN IF StartsWith(key.s, YTCS) THEN YTCS
         ELSE IF StartsWith(key.s, DS) THEN DS
         ELSE Prefix(key.s, 3)
    ELSE Unknown

\* line 370
StoryPointsOf(f) == Or(GetOr(f, "customfield_10016", PyInt(0)), PyInt(0)).n

\* The body of the loop (lines 347-391) for one issue: "raise" when
\* map_category raises, "skip" at the `continue` of line 365, else the row.
\* The category is resolved before the timestamp is looked at.
RowOf(it) ==
    LET key == Get(it, "key")
        f == GetOr(it, "fields", EmptyDict)
        assignee == AssigneeOf(f)
        category == map_category(f)
        status == StatusOf(f)
        dt == to_datetime(Get(f, "updated"))
    IN  IF category.exc # "" THEN [kind |-> "raise", exc |-> category.exc]
        ELSE IF dt.nat THEN [kind |-> "skip"]
        ELSE [kind |-> "row",
              row |-> [Assignee |-> assignee,
                       Ticket |-> key,
                       Category |-> Upper(category.val),   \* line 397
                       Status |-> status,
                       Date |-> LocalDate(dt),
                       Project |-> ProjectOf(key),
                       StoryPoints |-> StoryPointsOf(f)]]

RECURSIVE BuildRows(_, _, _)
BuildRows(its, i, rows) ==
    IF i > Len(its) THEN Return(rows)
    ELSE LET r == RowOf(its[i])
         IN  IF r.kind = "raise" THEN Raise(r.exc)
             ELSE IF r.kind = "skip" THEN BuildRows(its, i + 1, rows)
             ELSE BuildRows(its, i + 1, Append(rows, r.row))

build_dataframe(its) == BuildRows(its, 1, <<>>)

(***************************************************************************)
(* compute_summaries (lines 400-436).  A table is a set of records or a    *)
(* function of its key; the order of its rows is not modelled.             *)
(***************************************************************************)
Total == <<"T","o","t","a","l">>
ContextSwitchDays == <<"C","o","n","t","e","x","t","S","w","i","t","c","h","D","a","y","s">>

\* lines 426 and 429: the literal column list
PivotColumns == << <<"V","L">>, <<"C","S">>, <<"P","O","C">>, OTHERS >>

AssigneesOf(rows) == {rows[i].Assignee : i \in DOMAIN rows}

\* lines 402-406: groupby(["Assignee","Category"]).size()
WeeklySummary(rows) ==
    { [Assignee |-> g[1], Category |-> g[2],
       Tickets |-> Cardinality({i \in DOMAIN rows :
                                   rows[i].Assignee = g[1] /\ rows[i].Category = g[2]})] :
      g \in {<<rows[i].Assignee, rows[i].Category>> : i \in DOMAIN rows} }

\* a mutant of DistinctCategories: the rows of the group are counted
CountRows(rows, a, d) ==
    Cardinality({i \in DOMAIN rows : rows[i].Assignee = a /\ rows[i].Date = d})

\* line 411: nunique() of Category within one (Assignee, Date) group
DistinctCategories(rows, a, d) ==
    Cardinality({rows[i].Category : i \in {j \in DOMAIN rows :
                                              rows[j].Assignee = a /\ rows[j].Date = d}})

\* lines 409-414
PerDay(rows) ==
    { [Assignee |-> g[1], Date |-> g[2],
       DistinctCategories |-> DistinctCategories(rows, g[1], g[2]),
       SwitchFlag |-> IF DistinctCategories(rows, g[1], g[2]) > 1 THEN 1 ELSE 0] :
      g \in {<<rows[i].Assignee, rows[i].Date>> : i \in DOMAIN rows} }

\* lines 415-418: groupby("Assignee")["SwitchFlag"].sum()
SwitchSummary(pd) ==
    [a \in {r.Assignee : r \in pd} |->
        Cardinality({r \in pd : r.Assignee = a /\ r.SwitchFlag = 1})]

\* lines 421-425: one row per assignee, one column per category in the data
Pivot(ws) ==
    [a \in {r.Assignee : r \in ws} |->
        [c \in {r.Category : r \in ws} |->
            IF \E r \in ws : r.Assignee = a /\ r.Category = c
            THEN (CHOOSE r \in ws : r.Assignee = a /\ r.Category = c).Tickets
            ELSE 0]]

RECURSIVE SumCols(_, _, _)
SumCols(row, cols, i) ==
    IF i > Len(cols) THEN 0 ELSE row[cols[i]] + SumCols(row, cols, i + 1)

\* lines 426-434: the columns and, by assignee, the values of the final table
UserSummary(ws, pd) ==
    LET pivot == Pivot(ws)
        sw == SwitchSummary(pd)
        cell(a, c) == IF c \in DOMAIN pivot[a] THEN pivot[a][c] ELSE 0
        picked == [a \in DOMAIN pivot |-> [c \in Range(PivotColumns) |-> cell(a, c)]]
    IN  [columns |-> PivotColumns \o <<Total, ContextSwitchDays>>,
         rows |-> [a \in DOMAIN pivot |->
                      [c \in Range(PivotColumns) \cup {Total, ContextSwitchDays} |->
                          IF c = Total THEN SumCols(picked[a], PivotColumns, 1)
                          ELSE IF c = ContextSwitchDays
                          THEN (IF a \in DOMAIN sw THEN sw[a] ELSE 0)
                          ELSE picked[a][c]]]]

(***************************************************************************)
(* The efficiency block (lines 519-569).  Efficiency % is kept in          *)
(* hundredths of a percent: 6667 is 66.67.                                 *)
(***************************************************************************)
\* dict.get(k, 0) of a dict keyed by assignee
LeaveOf(inputs, assignee) == IF assignee \in DOMAIN inputs THEN inputs[assignee] ELSE 0

RECURSIVE SumPoints(_, _, _, _)
\* lines 521-525: the Story Points of the rows of one (Assignee, Project) group
SumPoints(rows, a, p, i) ==
    IF i > Len(rows) THEN 0
    ELSE (IF rows[i].Assignee = a /\ rows[i].Project = p THEN rows[i].StoryPoints ELSE 0)
         + SumPoints(rows, a, p, i + 1)

\* a mutant of HasRule: a project without a rule gets the default one
HasRuleDefault(project) == TRUE

\* lines 539, 543, 547: the projects that are not skipped
HasRule(project) == project = YTCS \/ project = DS

\* a mutant of ExpectedPoints: the sprint baselines of PROJECT_RULES
ExpectedPointsBaseline(project, working_days) == IF project = YTCS THEN 15 ELSE 5

\* lines 542 and 546
ExpectedPoints(project, working_days) ==
    IF project = YTCS THEN working_days * 3 ELSE working_days * 1

\* round(n / d * 100, 2) in hundredths, for n >= 0 and d > 0: the nearest
\* integer to 10000 * n / d, a tie going to the even one
RoundedPercent(n, d) ==
    LET q == (10000 * n) \div d
        r == (10000 * n) % d
    IN  IF 2 * r < d THEN q
        ELSE IF 2 * r > d THEN q + 1
        ELSE IF q % 2 = 0 THEN q ELSE q + 1

\* lines 536-566 for one group with a rule
EfficiencyRecord(assignee, project, completed_points, leave_days) ==
    LET working_days == 5 - leave_days
        expected_points == ExpectedPoints(project, working_days)
    IN  [Assignee |-> assignee,
         Project |-> project,
         CompletedPoints |-> completed_points,
         ExpectedPoints |-> expected_points,
         Efficiency |-> IF expected_points > 0
                        THEN RoundedPercent(completed_points, expected_points)
                        ELSE IF completed_points = 0 THEN 0 ELSE 10000,
         LeaveDays |-> leave_days,
         WorkingDays |-> working_days]

\* the order of the (Assignee, Project) keys of the groupby of line 521
GroupLess(g, h) == StrLess(g[1], h[1]) \/ (g[1] = h[1] /\ StrLess(g[2], h[2]))

RECURSIVE EfficiencyLoop(_, _, _, _)
\* lines 530-566: the loop over the groups, in the sorted order of their
\* keys; acc is what has been appended and warned so far
EfficiencyLoop(rows, inputs, groups, acc) ==
    IF groups = {} THEN acc
    ELSE LET g == CHOOSE x \in groups : \A y \in groups \ {x} : GroupLess(x, y)
             assignee == g[1]
             project == g[2]
             completed_points == SumPoints(rows, assignee, project, 1)
             leave_days == LeaveOf(inputs, assignee)
         IN  EfficiencyLoop(rows, inputs, groups \ {g},
                 IF HasRule(project)
                 THEN [acc EXCEPT !.data = Append(@,
                          EfficiencyRecord(assignee, project, completed_points, leave_days))]
                 ELSE [acc EXCEPT !.warnings = Append(@,
                          [Assignee |-> assignee, Project |-> project])])

EfficiencySummaryOf(rows, inputs) ==
    EfficiencyLoop(rows, inputs,
                   {<<rows[i].Assignee, rows[i].Project>> : i \in DOMAIN rows},
                   [data |-> <<>>, warnings |-> <<>>])

(***************************************************************************)
(* Configurations and inputs.                                              *)
(***************************************************************************)
\* st.secrets "categories": the default of line 34 and two other lists
CategoryConfigs ==
    { <<<<"V","L">>, <<"C","S">>, <<"P","O","C">>, <<"C","l","i","p","F","l","o","w">>>>,
      <<<<"c","s">>, <<"v","l">>, <<"p","o","c">>>>,
      <<<<"Q","A">>, <<"V","L">>, <<"o","p","s">>>> }

Modes == {"labels", "components", "customfield", "status"}
FieldIds == {"", "customfield_10050"}

ConfigInit ==
    /\ CATEGORY_SOURCE \in Modes
    /\ CUSTOMFIELD_ID \in FieldIds
    /\ \E cfg \in CategoryConfigs :
           PRIMARY_CATS = [i \in DOMAIN cfg |-> Upper(cfg[i])]
    /\ PROJECT_KEYS = <<YTCS, DS>>
    /\ tzlocal = 0

\* all sequences over S of length at most n
SeqsUpTo(S, n) == UNION {[1..k -> S] : k \in 0..n}

LabelPool ==
    { <<"v","l">>, <<"C","S">>, <<"P","o","c">>, <<"q","a">>, <<"b","u","g">> }

ComponentPool ==
    { PyDict([name |-> PyStr(<<"c","s">>)]),
      PyDict([name |-> PyStr(<<"V","L","-","t","e","a","m">>)]),
      PyDict([name |-> PyStr(<<"e","p","o","c","h">>)]),
      PyDict([name |-> PyStr(<<"u","i">>)]),
      PyDict([id |-> PyInt(7)]) }

OptionStrs == { PyStr(<<"v","l">>), PyStr(<<"C","S">>), PyStr(<<"z">>), PyStr(<<>>) }

\* a tagged option, with or without a value and a name attribute
Options ==
    { PyDict([value |-> v, name |-> n]) : v \in OptionStrs \cup {None}, n \in OptionStrs \cup {None} }
    \cup { PyDict([value |-> v]) : v \in OptionStrs }
    \cup { PyDict([name |-> n]) : n \in OptionStrs }
    \cup { EmptyDict }

Scalars == { PyStr(<<"v","l">>), PyStr(<<"P","O","C">>), PyStr(<<"x">>), PyInt(7), PyInt(12) }

ItemPool ==
    { PyDict([value |-> PyStr(<<"c","s">>), name |-> PyStr(<<"z">>)]),
      PyDict([value |-> PyStr(<<>>), name |-> PyStr(<<"v","l">>)]),
      PyDict([name |-> PyStr(<<"v","l">>)]),
      PyDict([value |-> None, name |-> PyStr(<<"C","S">>)]),
      PyStr(<<"q","a">>), PyStr(<<"x">>), None, PyInt(3) }

LabelValues == {PyList(l) : l \in SeqsUpTo({PyStr(s) : s \in LabelPool}, MaxLabels)}
ComponentValues == {PyList(l) : l \in SeqsUpTo(ComponentPool, MaxComponents)}
CustomValues == Options \cup Scalars \cup {PyList(l) : l \in SeqsUpTo(ItemPool, MaxItems)}

\* a field that is absent, null or present with a value of V
Opt(k, V) == {[x \in {} |-> None]} \cup {[x \in {k} |-> v] : v \in V \cup {None}}

\* the union of two dicts' records with disjoint keys
Merge(a, b) == [k \in DOMAIN a \cup DOMAIN b |-> IF k \in DOMAIN a THEN a[k] ELSE b[k]]

\* issue field sets: each classification source varied over all its values,
\* the other two over a few
FewLabels == {PyList(<<>>), PyList(<<PyStr(<<"C","S">>)>>)}
FewComponents == {PyList(<<PyDict([name |-> PyStr(<<"V","L","-","t","e","a","m">>)])>>)}
FewCustom == {PyStr(<<"P","O","C">>)}

FieldSets ==
    { PyDict(Merge(Merge(l, c), v)) :
        l \in Opt("labels", LabelValues),
        c \in Opt("components", FewComponents),
        v \in Opt("customfield_10050", FewCustom) }
    \cup
    { PyDict(Merge(Merge(l, c), v)) :
        l \in Opt("labels", FewLabels),
        c \in Opt("components", ComponentValues),
        v \in Opt("customfield_10050", FewCustom) }
    \cup
    { PyDict(Merge(Merge(l, c), v)) :
        l \in Opt("labels", FewLabels),
        c \in Opt("components", FewComponents),
        v \in Opt("customfield_10050", CustomValues) }


(***************************************************************************)
(* One run of the script: the sidebar (lines 144-238), then the run block  *)
(* (lines 438-569).  A step of the run is the code between two places      *)
(* where a run can be stopped with an effect on the session: the leave     *)
(* loop is one step per st.number_input and per st.button.  What the other *)
(* steps write is gone when the run is stopped, so a run stopped inside    *)
(* one of them is a run stopped before it.                                 *)
(***************************************************************************)
NoTable == [columns |-> <<>>, rows |-> <<>>]

\* no button was clicked; the Reset button of an assignee; the refresh button
NoClick == [kind |-> "none", a |-> <<>>]
ResetOf(a) == [kind |-> "reset", a |-> a]
Refresh == [kind |-> "refresh", a |-> <<>>]

\* no Reset click was handled yet
NoReset == [a |-> <<>>, before |-> <<>>]

NoLeave == [a \in {} |-> 0]

\* a page without leave inputs and without the refresh button
NoPage == [inputs |-> NoLeave, refresh |-> FALSE]

\* the page a finished run has left when the session holds the inputs w,
\* each rendered with the number it holds
PageOf(w) == [inputs |-> [a \in DOMAIN w |-> [state |-> w[a], value |-> w[a]]],
              refresh |-> DOMAIN w # {}]

\* line 31: the default project keys
DefaultProjectKeys == <<YTCS, DS>>

\* line 154
AllProjects == <<"A","l","l"," ","p","r","o","j","e","c","t","s">>

all_project_options == IF PROJECT_KEYS # <<>> THEN <<AllProjects>> \o PROJECT_KEYS
                       ELSE <<AllProjects>>

\* line 228
default_statuses == <<<<"D","E","V"," ","R","E","A","D","Y">>, <<"Q","A"," ","R","E","L","E","A","S","E">>, <<"D","O","N","E">>>>

\* what the two requests of fetch_active_sprint can come to: the board list
\* raises or answers non-200; it names no board of the project; the sprint
\* list of the board raises, answers non-200, is empty, or has a sprint
SprintAnswers ==
    { "boards_raise", "boards_non200", "no_board",
      "sprint_raise", "sprint_non200", "no_sprint", "active" }

\* the answers in which a request raised or came back with a status # 200
FailedAnswers == {"boards_raise", "boards_non200", "sprint_raise", "sprint_non200"}

\* lines 43-92: the sprint of lines 79-86, or None (lines 88 and 92); only a
\* raised exception is reported, by st.warning (line 91)
fetch_active_sprint(project_key) ==
    IF sprint_api[project_key] = "active"
    THEN PyDict([name |-> PyStr(project_key \o <<" ","S","p","r","i","n","t">>),
                 project |-> PyStr(project_key)])
    ELSE None

\* lines 163-166
SelectedProjects ==
    IF selected_project_filter = AllProjects THEN PROJECT_KEYS
    ELSE <<selected_project_filter>>

\* the projects whose active sprint the sidebar asks for (lines 185, 206)
AskedProjects ==
    IF selected_project_filter = AllProjects THEN Range(PROJECT_KEYS)
    ELSE {selected_project_filter}

\* lines 180-221: for "All projects" the list of the active sprints found,
\* or None; for one project its active sprint, or None
SelectedSprints ==
    IF selected_project_filter = AllProjects
    THEN LET found == SelectSeq(PROJECT_KEYS, LAMBDA p : Truthy(fetch_active_sprint(p)))
             all_active_sprints == [i \in DOMAIN found |-> fetch_active_sprint(found[i])]
         IN  IF all_active_sprints # <<>> THEN PyList(all_active_sprints) ELSE None
    ELSE LET active_sprint == fetch_active_sprint(selected_project_filter)
         IN  IF Truthy(active_sprint) THEN active_sprint ELSE None

\* f'{field} = "{v}"' for each v, joined by " OR "
AnyOf(field, vs) ==
    Join(<<" ","O","R"," ">>, [i \in DOMAIN vs |-> field \o <<" ","="," ","\"">> \o vs[i] \o <<"\"">>])

\* lines 283-305: the query fetch_issues sends
Jql(project_keys, statuses, sprint_filter) ==
    LET projects == <<<<"(">> \o AnyOf(<<"p","r","o","j","e","c","t">>, project_keys) \o <<")">>>>
        status == IF statuses # <<>>
                  THEN <<<<"(">> \o AnyOf(<<"s","t","a","t","u","s">>, statuses) \o <<")">>>>
                  ELSE <<>>
        named == IF sprint_filter.t = "list"
                 THEN SelectSeq(sprint_filter.items, LAMBDA sp : Truthy(Get(sp, "name")))
                 ELSE <<>>
        sprint_names == [i \in DOMAIN named |-> Get(named[i], "name").s]
        sprint == IF ~Truthy(sprint_filter) THEN <<>>
                  ELSE IF sprint_filter.t = "list"
                  THEN (IF sprint_names # <<>>
                        THEN <<<<"(">> \o AnyOf(<<"s","p","r","i","n","t">>, sprint_names) \o <<")">>>>
                        ELSE <<>>)
                  ELSE IF sprint_filter.t = "dict" /\ Truthy(Get(sprint_filter, "name"))
                  THEN <<AnyOf(<<"s","p","r","i","n","t">>, <<Get(sprint_filter, "name").s>>)>>
                  ELSE <<>>
    IN  Join(<<" ","A","N","D"," ">>, projects \o status \o sprint)

\* the state of a run before line 144
RunInit ==
    /\ pc = "start"
    /\ leave_step = 0
    /\ error = ""
    /\ selected_projects = <<>>
    /\ selected_sprints = None
    /\ request_failed = FALSE
    /\ jql = <<>>
    /\ issues = <<>>
    /\ df = <<>>
    /\ weekly_summary = {}
    /\ per_day = {}
    /\ user_summary = NoTable
    /\ efficiency_df = <<>>
    /\ warnings = <<>>

\* a new run of the script, started by a click on `button`, by a changed
\* widget or by st.rerun(): the run in progress, if any, is stopped, the
\* script's variables are those of a fresh run, the session state stays
StartRun(button) ==
    /\ clicked' = button
    /\ pc' = "start"
    /\ leave_step' = 0
    /\ error' = ""
    /\ selected_projects' = <<>>
    /\ selected_sprints' = None
    /\ request_failed' = FALSE
    /\ jql' = <<>>
    /\ issues' = <<>>
    /\ df' = <<>>
    /\ weekly_summary' = {}
    /\ per_day' = {}
    /\ user_summary' = NoTable
    /\ efficiency_df' = <<>>
    /\ warnings' = <<>>

\* lines 453 and 469-470: the assignees the loop makes an input for
LoopAssignees == Sorted(AssigneesOf(df) \ {Unassigned})

\* the assignee of the st.* call the leave loop is at
LoopAssignee == LoopAssignees[(leave_step \div 2) + 1]

\* the assignees whose number_input this run has rendered so far
Drawn == {LoopAssignees[i] : i \in 1..((leave_step + 1) \div 2)}

\* the part of a widget store that is left at the end of a run
Kept(store) == [a \in DOMAIN store \cap Drawn |-> store[a]]

\* the run ends, on its last line, on st.stop() or on st.rerun(): Streamlit
\* deletes the state of the widgets the run has not rendered
EndOfRun ==
    /\ widget' = Kept(widget)
    /\ rendered' = Kept(rendered)

\* lines 144-238: the projects of the selectbox, st.stop() when there is
\* none (lines 168-170); the active sprint of each, where a failed request
\* leaves the project without a sprint and the run goes on; st.stop() when
\* no status is selected (lines 236-238).  A run that ends leaves on the
\* page what it has drawn, and in the session the widgets it has rendered.
Sidebar ==
    /\ pc = "start"
    /\ selected_projects' = SelectedProjects
    /\ IF SelectedProjects = <<>>
       THEN /\ pc' = "stopped"
            /\ page' = NoPage
            /\ EndOfRun
            /\ UNCHANGED <<selected_sprints, request_failed>>
       ELSE /\ selected_sprints' = SelectedSprints
            /\ request_failed' = \E p \in AskedProjects : sprint_api[p] \in FailedAnswers
            /\ IF available_statuses = <<>>
               THEN pc' = "stopped" /\ page' = NoPage /\ EndOfRun
               ELSE pc' = "filters" /\ page' = page /\ UNCHANGED <<widget, rendered>>
    /\ UNCHANGED <<config, call, tracker, leave_inputs, key_identity, clicked, interactions,
                   last_reset, selected_project_filter, available_statuses, sprint_api, jql,
                   paging, leave_step, error, issues, df, tables, efficiency>>

\* lines 439-443: fetch_issues sends the query and returns the issues the
\* tracker answers it with, or a request of it raises or answers non-200
\* and the run stops on st.error
FetchIssues ==
    /\ pc = "filters"
    /\ jql' = Jql(selected_projects, available_statuses, selected_sprints)
    /\ \E ok \in BOOLEAN :
          IF ok
          THEN /\ issues' = tracker /\ pc' = "fetched" /\ error' = error
               /\ request_failed' = request_failed
               /\ page' = page
               /\ UNCHANGED <<widget, rendered>>
          ELSE /\ issues' = issues /\ pc' = "fetch_failed" /\ error' = "RuntimeError"
               /\ request_failed' = TRUE
               /\ page' = NoPage
               /\ EndOfRun
    /\ UNCHANGED <<config, call, tracker, leave_inputs, key_identity, clicked, interactions,
                   last_reset, selected_project_filter, available_statuses, sprint_api,
                   selected_projects, selected_sprints, paging, leave_step, df, tables,
                   efficiency>>

\* lines 445-448: build_dataframe, then st.stop() on an empty frame; an
\* exception of build_dataframe breaks the run off, which is no end of it
\* for the session's widgets
BuildDataframe ==
    /\ pc = "fetched"
    /\ LET r == build_dataframe(issues)
       IN  IF r.exc # ""
           THEN /\ df' = df /\ pc' = "exception" /\ error' = r.exc /\ page' = NoPage
                /\ UNCHANGED <<widget, rendered>>
           ELSE /\ df' = r.val
                /\ error' = error
                /\ IF r.val = <<>>
                   THEN pc' = "no_issues" /\ page' = NoPage /\ EndOfRun
                   ELSE pc' = "leave_ui" /\ page' = page /\ UNCHANGED <<widget, rendered>>
    /\ UNCHANGED <<config, call, tracker, leave_inputs, key_identity, clicked, interactions,
                   last_reset, selected_project_filter, available_statuses, sidebar, paging,
                   leave_step, issues, tables, efficiency>>

\* lines 481-482
min_value == 0
max_value == 5

\* a number input that would accept any entry up to 7
AnyLeave == min_value..(max_value + 2)

\* what the user can enter into the number_input of lines 479-486
LeaveRange == min_value..max_value

\* lines 479-486: the number_input of an assignee returns the session's value
\* of the widget; on the first render of the widget it returns `value`.  A
\* Streamlit that identifies the widget by all its parameters takes a render
\* with another `value` for the first render of another widget.
number_input(a, value) ==
    IF a \in DOMAIN widget /\ (key_identity \/ rendered[a] = value)
    THEN widget[a]
    ELSE value

\* lines 473-487: the number_input of the next assignee and the store of
\* what it returns
LeaveInput ==
    /\ pc = "leave_ui"
    /\ leave_step % 2 = 0
    /\ leave_step \div 2 < Len(LoopAssignees)
    /\ LET assignee == LoopAssignee
           current_leave == LeaveOf(leave_inputs, assignee)
           leave_days == number_input(assignee, current_leave)
       IN  /\ widget' = [a \in DOMAIN widget \cup {assignee} |->
                            IF a = assignee THEN leave_days ELSE widget[a]]
           /\ rendered' = [a \in DOMAIN rendered \cup {assignee} |->
                              IF a = assignee THEN current_leave ELSE rendered[a]]
           /\ leave_inputs' = [a \in DOMAIN leave_inputs \cup {assignee} |->
                                  IF a = assignee THEN leave_days ELSE leave_inputs[a]]
           /\ page' = [page EXCEPT !.inputs =
                           [a \in DOMAIN @ \cup {assignee} |->
                               IF a = assignee
                               THEN [state |-> leave_days, value |-> current_leave]
                               ELSE @[a]]]
    /\ leave_step' = leave_step + 1
    /\ UNCHANGED <<config, call, tracker, key_identity, clicked, interactions, last_reset,
                   selected_project_filter, available_statuses, sidebar, paging, pc, error,
                   issues, df, tables, efficiency>>

\* the leave line 487 stores for the assignees of this run, before line 491
Recorded ==
    [a \in Range(LoopAssignees) |-> number_input(a, LeaveOf(leave_inputs, a))]

\* lines 489-492: the Reset button of the assignee; in the run its click
\* started it stores 0 and ends the run there with st.rerun(), which starts
\* the script again and leaves the page as it is
ResetButton ==
    /\ pc = "leave_ui"
    /\ leave_step % 2 = 1
    /\ IF clicked = ResetOf(LoopAssignee)
       THEN /\ leave_inputs' = [leave_inputs EXCEPT ![LoopAssignee] = 0]
            /\ last_reset' = [a |-> LoopAssignee, before |-> Recorded]
            /\ EndOfRun
            /\ StartRun(NoClick)
       ELSE /\ leave_step' = leave_step + 1
            /\ UNCHANGED <<leave_inputs, last_reset, widget, rendered, clicked, pc, error,
                           selected_projects, selected_sprints, request_failed, jql, issues,
                           df, tables, efficiency>>
    /\ UNCHANGED <<config, call, tracker, key_identity, interactions,
                   selected_project_filter, available_statuses, page, sprint_api, paging>>

\* lines 494-498: the refresh button after the loop; in the run its click
\* started it ends the run with st.rerun()
RefreshButton ==
    /\ pc = "leave_ui"
    /\ leave_step = 2 * Len(LoopAssignees)
    /\ page' = [page EXCEPT !.refresh = TRUE]
    /\ IF clicked = Refresh
       THEN EndOfRun /\ StartRun(NoClick)
       ELSE /\ pc' = "summaries"
            /\ UNCHANGED <<widget, rendered, clicked, leave_step, error, selected_projects,
                           selected_sprints, request_failed, jql, issues, df, tables,
                           efficiency>>
    /\ UNCHANGED <<config, call, tracker, leave_inputs, key_identity, interactions,
                   last_reset, selected_project_filter, available_statuses, sprint_api,
                   paging>>

\* lines 468-498
LeaveUI ==
    \/ LeaveInput
    \/ ResetButton
    \/ RefreshButton

\* line 508
ComputeSummaries ==
    /\ pc = "summaries"
    /\ weekly_summary' = WeeklySummary(df)
    /\ per_day' = PerDay(df)
    /\ user_summary' = UserSummary(WeeklySummary(df), PerDay(df))
    /\ pc' = "efficiency"
    /\ UNCHANGED <<config, call, tracker, session, page, sidebar, paging, leave_step, error,
                   issues, df, efficiency>>

\* lines 519-569; the script ends: the page holds what this run drew and
\* the session the widgets it rendered
EfficiencySummary ==
    /\ pc = "efficiency"
    /\ LET out == EfficiencySummaryOf(df, leave_inputs)
       IN  efficiency_df' = out.data /\ warnings' = out.warnings
    /\ pc' = "done"
    /\ page' = [inputs |-> Kept(page.inputs), refresh |-> TRUE]
    /\ EndOfRun
    /\ UNCHANGED <<config, call, tracker, leave_inputs, key_identity, clicked, interactions,
                   last_reset, selected_project_filter, available_statuses, sidebar, paging,
                   leave_step, error, issues, df, tables>>

Next ==
    \/ Sidebar
    \/ FetchIssues
    \/ BuildDataframe
    \/ LeaveUI
    \/ ComputeSummaries
    \/ EfficiencySummary

(***************************************************************************)
(* Issue collections.                                                      *)
(***************************************************************************)
Al == <<"A","l">>
Bo == <<"B","o">>

Iso(day, hour, off) == [t |-> "iso", day |-> day, hour |-> hour, off |-> off]

RECURSIVE SetToSeq(_)
SetToSeq(S) == IF S = {} THEN <<>>
               ELSE LET x == CHOOSE x \in S : TRUE IN <<x>> \o SetToSeq(S \ {x})

\* the collections of at most MaxIssues issues of a pool, each in pool order
Collections(pool) ==
    LET p == SetToSeq(pool)
    IN  UNION { { [j \in 1..k |-> p[s[j]]] :
                    s \in {t \in [1..k -> 1..Len(p)] : \A j \in 1..(k - 1) : t[j] <= t[j + 1]} } :
                k \in 0..MaxIssues }

\* an issue: its key and its fields, each absent, null or present
Issue(key, flds) == PyDict(Merge(key, [fields |-> PyDict(flds)]))

Field(k, v) == [x \in {k} |-> v]

NoField == [x \in {} |-> None]

\* issues for the aggregation: two contributors, two days, four label lists
AggPool ==
    { Issue(Field("key", PyStr(<<"Y","T","C","S","-","1">>)),
            Merge(Merge(Merge(Field("assignee", a), Field("labels", PyList(l))),
                        Field("updated", u)),
                  Field("customfield_10016", PyInt(1)))) :
        a \in { PyDict([displayName |-> PyStr(Al)]), PyDict([name |-> PyStr(Bo)]) },
        l \in { <<PyStr(<<"v","l">>)>>, <<PyStr(<<"C","S">>)>>,
                <<PyStr(<<"q","a">>), PyStr(<<"C","l","i","p","F","l","o","w">>)>>,
                <<PyStr(<<"b","u","g">>)>> },
        u \in { Iso(1, 10, 0), Iso(2, 10, 0) } }

\* issues for the efficiency block: four keys, a named and a missing
\* assignee, story points missing or present
EffPool ==
    { Issue(k,
            Merge(Merge(Merge(a, Field("labels", PyList(<<PyStr(<<"v","l">>)>>))),
                        Field("updated", Iso(1, 10, 0))),
                  p)) :
        k \in { Field("key", PyStr(<<"Y","T","C","S","-","7">>)),
                Field("key", PyStr(<<"D","S","-","2">>)),
                Field("key", PyStr(<<"A","B","C","1","2","3">>)),
                NoField },
        a \in { Field("assignee", PyDict([displayName |-> PyStr(Al)])),
                Field("assignee", None) },
        p \in { NoField, Field("customfield_10016", PyInt(2)),
                Field("customfield_10016", PyInt(6)) } }

\* issues for the normalizer: `updated` missing, unparseable or a timestamp,
\* and one classification source each
NormPool ==
    { Issue(Field("key", PyStr(<<"D","S","-","2">>)),
            Merge(Merge(Field("assignee", PyDict([displayName |-> PyStr(Al)])), c), u)) :
        c \in { Field("labels", PyList(<<PyStr(<<"v","l">>)>>)),
                Field("components", PyList(<<PyDict([name |-> PyStr(<<"c","s">>)])>>)),
                Field("customfield_10050", PyStr(<<"x">>)),
                Field("customfield_10050", PyDict([value |-> PyStr(<<"p","o","c">>)])),
                Field("customfield_10050",
                      PyList(<<PyDict([name |-> PyStr(<<"v","l">>)])>>)) },
        u \in { NoField, Field("updated", PyStr(<<"n","/","a">>)),
                Field("updated", Iso(1, 20, 0)), Field("updated", Iso(2, 1, 5)) } }

DefaultCategories ==
    <<<<"V","L">>, <<"C","S">>, <<"P","O","C">>, <<"C","l","i","p","F","l","o","w">>>>

\* a session in which each widget was last rendered with the stored leave
\* and the user has not clicked yet
SessionInit ==
    /\ rendered = widget
    /\ key_identity = FALSE
    /\ clicked = NoClick
    /\ interactions = 0
    /\ last_reset = NoReset

\* the default projects, every project and every status selected, and the
\* page of the session's inputs
DefaultFilters ==
    /\ PROJECT_KEYS = DefaultProjectKeys
    /\ selected_project_filter = AllProjects
    /\ available_statuses = default_statuses
    /\ page = PageOf(widget)

\* every project has a board with an active sprint
AllActive == sprint_api = [p \in Range(DefaultProjectKeys) |-> "active"]

\* fetch_issues is not being stepped through
NotFetching ==
    /\ start_at = 0
    /\ all_issues = <<>>
    /\ fetch_pc = "idle"
    /\ requests = 0
    /\ faithful = TRUE

(***************************************************************************)
(* Specifications.  Each runs the script once; they differ in the issues   *)
(* and the configuration the run starts from.                              *)
(***************************************************************************)
\* aggregation: label mode, every category list
InitAgg ==
    /\ CATEGORY_SOURCE = "labels"
    /\ CUSTOMFIELD_ID = ""
    /\ \E cfg \in CategoryConfigs : PRIMARY_CATS = [i \in DOMAIN cfg |-> Upper(cfg[i])]
    /\ tzlocal = 0
    /\ mc_arg = EmptyDict /\ mc_ret = NotCalled
    /\ tracker \in Collections(AggPool)
    /\ leave_inputs = NoLeave /\ widget = NoLeave
    /\ SessionInit
    /\ DefaultFilters
    /\ AllActive
    /\ NotFetching
    /\ RunInit

SpecAgg == InitAgg /\ [][Next]_vars

\* efficiency: the session holds the leave the user entered for Al, if any
InitEff ==
    /\ CATEGORY_SOURCE = "labels"
    /\ CUSTOMFIELD_ID = ""
    /\ PRIMARY_CATS = [i \in DOMAIN DefaultCategories |-> Upper(DefaultCategories[i])]
    /\ tzlocal = 0
    /\ mc_arg = EmptyDict /\ mc_ret = NotCalled
    /\ tracker \in Collections(EffPool)
    /\ widget \in {NoLeave} \cup {[a \in {Al} |-> n] : n \in 0..5}
    /\ leave_inputs = widget
    /\ SessionInit
    /\ DefaultFilters
    /\ AllActive
    /\ NotFetching
    /\ RunInit

SpecEff == InitEff /\ [][Next]_vars

\* the modes, custom-field mode with and without a field identifier
NormConfigs ==
    { <<"labels", "">>, <<"components", "">>, <<"customfield", "">>,
      <<"customfield", "customfield_10050">>, <<"status", "customfield_10050">> }

\* normalization: every mode, two local time zones
InitNorm ==
    /\ \E c \in NormConfigs : CATEGORY_SOURCE = c[1] /\ CUSTOMFIELD_ID = c[2]
    /\ PRIMARY_CATS = [i \in DOMAIN DefaultCategories |-> Upper(DefaultCategories[i])]
    /\ tzlocal \in {0, 9}
    /\ mc_arg = EmptyDict /\ mc_ret = NotCalled
    /\ tracker \in Collections(NormPool)
    /\ leave_inputs = NoLeave /\ widget = NoLeave
    /\ SessionInit
    /\ DefaultFilters
    /\ AllActive
    /\ NotFetching
    /\ RunInit

SpecNorm == InitNorm /\ [][Next]_vars

\* the subsequences of a sequence
Subsequences(p) ==
    { [j \in 1..Cardinality(S) |->
          p[CHOOSE i \in S : Cardinality({k \in S : k < i}) = j - 1]] :
      S \in SUBSET DOMAIN p }

\* the sequences a sequence starts with
Prefixes(p) == {SubSeq(p, 1, n) : n \in 0..Len(p)}

\* issues of a session: one of Bo, one of Al, one without assignee
SessionIssues ==
    << Issue(Field("key", PyStr(<<"D","S","-","2">>)),
             Merge(Merge(Merge(Field("assignee", PyDict([displayName |-> PyStr(Bo)])),
                               Field("labels", PyList(<<PyStr(<<"v","l">>)>>))),
                         Field("updated", Iso(1, 10, 0))),
                   Field("customfield_10016", PyInt(2)))),
       Issue(Field("key", PyStr(<<"Y","T","C","S","-","7">>)),
             Merge(Merge(Merge(Field("assignee", PyDict([displayName |-> PyStr(Al)])),
                               Field("labels", PyList(<<PyStr(<<"C","S">>)>>))),
                         Field("updated", Iso(1, 10, 0))),
                   Field("customfield_10016", PyInt(6)))),
       Issue(Field("key", PyStr(<<"Y","T","C","S","-","1">>)),
             Merge(Merge(Field("assignee", None),
                         Field("labels", PyList(<<PyStr(<<"v","l">>)>>))),
                   Field("updated", Iso(2, 10, 0)))) >>

\* st.secrets "project_keys": the default of line 31, one project, none
ProjectConfigs == {DefaultProjectKeys, <<DS>>, <<>>}

\* values of the status multiselect: all, one, none
StatusChoices == {default_statuses, <<<<"D","O","N","E">>>>, <<>>}

\* sprint discovery: one run with every configuration and value of the
\* sidebar filters and every answer of the board and sprint endpoints for
\* each project
InitSprint ==
    /\ CATEGORY_SOURCE = "labels"
    /\ CUSTOMFIELD_ID = ""
    /\ PRIMARY_CATS = [i \in DOMAIN DefaultCategories |-> Upper(DefaultCategories[i])]
    /\ tzlocal = 0
    /\ mc_arg = EmptyDict /\ mc_ret = NotCalled
    /\ tracker \in Subsequences(SessionIssues)
    /\ leave_inputs = NoLeave /\ widget = NoLeave
    /\ SessionInit
    /\ PROJECT_KEYS \in ProjectConfigs
    /\ selected_project_filter \in Range(all_project_options)
    /\ available_statuses \in StatusChoices
    /\ page = NoPage
    /\ sprint_api \in [Range(DefaultProjectKeys) -> SprintAnswers]
    /\ NotFetching
    /\ RunInit

SpecSprint == InitSprint /\ [][Next]_vars

(***************************************************************************)
(* The session: the user enters a leave value, presses a Reset button or   *)
(* the refresh button of the page, or changes a sidebar filter, while a    *)
(* run is in progress or after it; each of these stops the run in progress *)
(* and starts a new run of the script in the same session.                 *)
(***************************************************************************)
\* the run has ended: on its last line, on st.stop() or on an exception
Ended == pc \in {"done", "stopped", "fetch_failed", "no_issues", "exception"}

\* the browser asks for a run: it sends the state of every input on the
\* page, which is the state of these widgets in the run
Browser(inputs) ==
    /\ widget' = [a \in DOMAIN inputs \cup DOMAIN widget |->
                     IF a \in DOMAIN inputs THEN inputs[a].state ELSE widget[a]]
    /\ rendered' = [a \in DOMAIN inputs \cup DOMAIN rendered |->
                       IF a \in DOMAIN inputs THEN inputs[a].value ELSE rendered[a]]

\* the user changes the number_input of an assignee on the page (lines
\* 479-486)
EnterLeave ==
    /\ interactions < MaxInteractions
    /\ \E a \in DOMAIN page.inputs, v \in LeaveRange :
          /\ v # page.inputs[a].state
          /\ page' = [page EXCEPT !.inputs[a].state = v]
    /\ Browser(page'.inputs)
    /\ interactions' = interactions + 1
    /\ last_reset' = NoReset
    /\ StartRun(NoClick)
    /\ UNCHANGED <<config, call, tracker, leave_inputs, key_identity,
                   selected_project_filter, available_statuses, sprint_api, paging>>

\* the user clicks the Reset button of an assignee on the page (line 490)
PressReset ==
    /\ interactions < MaxInteractions
    /\ \E a \in DOMAIN page.inputs : StartRun(ResetOf(a))
    /\ Browser(page.inputs)
    /\ interactions' = interactions + 1
    /\ UNCHANGED <<config, call, tracker, leave_inputs, key_identity,
                   last_reset, selected_project_filter, available_statuses, page,
                   sprint_api, paging>>

\* the user clicks the refresh button (line 496)
PressRefresh ==
    /\ interactions < MaxInteractions
    /\ page.refresh
    /\ interactions' = interactions + 1
    /\ StartRun(Refresh)
    /\ Browser(page.inputs)
    /\ UNCHANGED <<config, call, tracker, leave_inputs, key_identity,
                   last_reset, selected_project_filter, available_statuses, page,
                   sprint_api, paging>>

\* the user picks another project in the selectbox (line 155) or other
\* statuses in the multiselect (line 229); the tracker answers the query of
\* the new filters with other issues
ChangeFilter ==
    /\ interactions < MaxInteractions
    /\ \E project \in Range(all_project_options), statuses \in StatusChoices :
          /\ <<project, statuses>> # <<selected_project_filter, available_statuses>>
          /\ selected_project_filter' = project
          /\ available_statuses' = statuses
    /\ tracker' \in Prefixes(SessionIssues)
    /\ interactions' = interactions + 1
    /\ StartRun(NoClick)
    /\ Browser(page.inputs)
    /\ UNCHANGED <<config, call, leave_inputs, key_identity, last_reset,
                   page, sprint_api, paging>>

NextSession ==
    \/ Next
    \/ EnterLeave
    \/ PressReset
    \/ PressRefresh
    \/ ChangeFilter

\* a new session (lines 19-21) on either Streamlit
InitSession ==
    /\ CATEGORY_SOURCE = "labels"
    /\ CUSTOMFIELD_ID = ""
    /\ PRIMARY_CATS = [i \in DOMAIN DefaultCategories |-> Upper(DefaultCategories[i])]
    /\ tzlocal = 0
    /\ mc_arg = EmptyDict /\ mc_ret = NotCalled
    /\ tracker \in Prefixes(SessionIssues)
    /\ leave_inputs = NoLeave /\ widget = NoLeave /\ rendered = NoLeave
    /\ key_identity \in BOOLEAN
    /\ clicked = NoClick
    /\ interactions = 0
    /\ last_reset = NoReset
    /\ DefaultFilters
    /\ AllActive
    /\ NotFetching
    /\ RunInit

SpecSession == InitSession /\ [][NextSession]_vars

(***************************************************************************)
(* fetch_issues stepped through (lines 311-342): each step is one          *)
(* iteration of its loop, against a server that answers any status, any    *)
(* page and any total up to MaxTotal.  FetchIssues above is the call as a   *)
(* whole.                                                                  *)
(***************************************************************************)
\* line 312
max_results == 100

\* the issues a response can carry
PageIssues ==
    { PyDict([key |-> PyStr(<<"D","S","-","1">>)]),
      PyDict([key |-> PyStr(<<"D","S","-","2">>)]),
      PyDict([key |-> PyStr(<<"D","S","-","3">>)]) }

Min(a, b) == IF a < b THEN a ELSE b

\* the bodies of the 200 responses: "issues" and "total" present or not
Payloads ==
    { PyDict(Merge(i, t)) :
        i \in {NoField} \cup {Field("issues", PyList(batch)) :
                                batch \in SeqsUpTo(PageIssues, Min(max_results, MaxPage))},
        t \in {NoField} \cup {Field("total", PyInt(n)) : n \in 0..MaxTotal} }

\* the issues that match the query, each once
Matching ==
    { m \in SeqsUpTo(PageIssues, MaxTotal) : \A i, j \in DOMAIN m : m[i] = m[j] => i = j }

\* the payload is the page of `tracker` that starts at offset s, cut at some
\* page limit of the server, with the number of matching issues as total
Faithful(payload, s) ==
    /\ DOMAIN payload.d = {"issues", "total"}
    /\ payload.d.total = PyInt(Len(tracker))
    /\ \E limit \in 1..Min(max_results, MaxPage) :
          payload.d.issues = PyList(SubSeq(tracker, s + 1, Min(s + limit, Len(tracker))))

\* a loop that goes on until a page is empty
BreakOnEmptyPage(offset, total, batch) == batch = <<>>

\* line 339, with start_at already advanced
Break(offset, total, batch) == offset >= total \/ batch = <<>>

\* lines 322-342: a request; a status other than 200 raises (lines 330-331),
\* else the page is appended, start_at advanced, and the loop left or not
FetchPage ==
    /\ fetch_pc = "loop"
    /\ requests <= MaxTotal
    /\ requests' = requests + 1
    /\ \E status \in {200, 500} :
          IF status # 200
          THEN /\ fetch_pc' = "raised"
               /\ UNCHANGED <<start_at, all_issues, faithful>>
          ELSE \E payload \in Payloads :
                 LET batch == GetOr(payload, "issues", PyList(<<>>)).items
                     total == GetOr(payload, "total", PyInt(0)).n
                 IN  /\ all_issues' = all_issues \o batch
                     /\ start_at' = start_at + Len(batch)
                     /\ fetch_pc' = IF Break(start_at + Len(batch), total, batch)
                                    THEN "returned" ELSE "loop"
                     /\ faithful' = (faithful /\ Faithful(payload, start_at))
    /\ UNCHANGED <<config, call, tracker, session, page, sidebar, pc, leave_step, error,
                   issues, df, tables, efficiency>>

NextFetch == FetchPage

\* fetch_issues after line 313
InitFetch ==
    /\ CATEGORY_SOURCE = "labels"
    /\ CUSTOMFIELD_ID = ""
    /\ PRIMARY_CATS = [i \in DOMAIN DefaultCategories |-> Upper(DefaultCategories[i])]
    /\ tzlocal = 0
    /\ mc_arg = EmptyDict /\ mc_ret = NotCalled
    /\ tracker \in Matching
    /\ leave_inputs = NoLeave /\ widget = NoLeave
    /\ SessionInit
    /\ DefaultFilters
    /\ AllActive
    /\ start_at = 0
    /\ all_issues = <<>>
    /\ fetch_pc = "loop"
    /\ requests = 0
    /\ faithful = TRUE
    /\ RunInit

\* the loop is a sequential program: while it can take a step it takes one
SpecFetch == InitFetch /\ [][NextFetch]_vars /\ WF_vars(NextFetch)

(***************************************************************************)
(* Specification of the category resolver alone: a configuration is        *)
(* loaded, then map_category is called on issue field sets.                *)
(***************************************************************************)
InitCat ==
    /\ ConfigInit
    /\ mc_arg = EmptyDict
    /\ mc_ret = NotCalled
    /\ tracker = <<>>
    /\ leave_inputs = NoLeave /\ widget = NoLeave
    /\ SessionInit
    /\ DefaultFilters
    /\ AllActive
    /\ NotFetching
    /\ RunInit

CallMapCategory ==
    /\ mc_ret = NotCalled
    /\ \E f \in FieldSets :
        /\ mc_arg' = f
        /\ mc_ret' = map_category(f)
        /\ UNCHANGED <<config, tracker, session, page, sidebar, paging, pc, leave_step,
                       error, issues, df, tables, efficiency>>

NextCat == CallMapCategory

SpecCat == InitCat /\ [][NextCat]_vars

(***************************************************************************)
(* Claims about map_category, checked under SpecCat.                       *)
(***************************************************************************)
Called == mc_ret # NotCalled

\* the least element of a non-empty set of integers
Least(S) == CHOOSE i \in S : \A j \in S : i <= j

\* the first primary category, in configured order, whose position is in `at`
FirstConfigured(at) == IF at = {} THEN OTHERS ELSE PRIMARY_CATS[Least(at)]

\* the uppercased labels of the issue map_category was called on, as a set
ArgLabelSet ==
    LET v == Get(mc_arg, "labels")
    IN  IF v.t = "list" THEN {Upper(v.items[i].s) : i \in DOMAIN v.items} ELSE {}

\* the uppercased component names of that issue, as a set ("" for no name)
ArgComponentNames ==
    LET v == Get(mc_arg, "components")
    IN  IF v.t = "list"
        THEN {Upper(GetOr(v.items[i], "name", PyStr(<<>>)).s) : i \in DOMAIN v.items}
        ELSE {}

\* C5: in label mode map_category returns the first primary category, in
\* configured order, that is in the issue's set of uppercased labels (whatever
\* the order of the labels), and OTHERS when none is.
C5_LabelFirstConfigured ==
    (Called /\ CATEGORY_SOURCE = "labels") =>
        mc_ret = Return(FirstConfigured(
                     {j \in DOMAIN PRIMARY_CATS : PRIMARY_CATS[j] \in ArgLabelSet}))

\* C5 witness: an issue carrying two primary categories whose first label is
\* not the category returned.
C5_Witness ==
    /\ Called /\ CATEGORY_SOURCE = "labels"
    /\ Cardinality(ArgLabelSet \cap Range(PRIMARY_CATS)) >= 2
    /\ Upper(Get(mc_arg, "labels").items[1].s) \in Range(PRIMARY_CATS)
    /\ mc_ret.val # Upper(Get(mc_arg, "labels").items[1].s)
    /\ mc_ret.val = PRIMARY_CATS[1]

\* C6: in component mode map_category returns the first primary category, in
\* configured order, that equals an uppercased component name or is a
\* substring of one, and OTHERS when none does.
C6_ComponentFirstConfigured ==
    (Called /\ CATEGORY_SOURCE = "components") =>
        mc_ret = Return(FirstConfigured(
                     {j \in DOMAIN PRIMARY_CATS :
                         \E n \in ArgComponentNames :
                             n = PRIMARY_CATS[j] \/ IsSubstring(PRIMARY_CATS[j], n)}))

\* C6 witness: a category returned that is a proper substring of a component
\* name and equal to none.
C6_Witness ==
    /\ Called /\ CATEGORY_SOURCE = "components"
    /\ mc_ret.val \in Range(PRIMARY_CATS)
    /\ mc_ret.val \notin ArgComponentNames
    /\ \E n \in ArgComponentNames : IsSubstring(mc_ret.val, n)

\* the value-or-name extraction of a tagged option, as the specification
\* states it
OptionName(o) == Or(Or(Get(o, "value"), Get(o, "name")), PyStr(<<>>))

\* the name the specification extracts from a custom-field value
SpecFieldName(val) ==
    IF val.t = "dict" THEN OptionName(val)
    ELSE IF val.t = "list"
    THEN IF val.items = <<>> THEN PyStr(<<>>)
         ELSE IF val.items[1].t = "dict" THEN OptionName(val.items[1])
         ELSE PyStr(Str(val.items[1]))
    ELSE IF val.t = "none" THEN PyStr(<<>>) ELSE PyStr(Str(val))

\* C7: in custom-field mode with a field identifier, map_category returns the
\* uppercased extracted name when it is a primary category and OTHERS
\* otherwise, for every shape of the field value.
C7_CustomFieldExtraction ==
    (Called /\ CATEGORY_SOURCE = "customfield" /\ CUSTOMFIELD_ID # "") =>
        LET name == Upper(SpecFieldName(Get(mc_arg, CUSTOMFIELD_ID)).s)
        IN  mc_ret = Return(IF name \in Range(PRIMARY_CATS) THEN name ELSE OTHERS)

\* C8: map_category is total: it returns a category and never raises.
C8_Total == Called => (mc_ret.exc = "" /\ mc_ret.val \in Range(PRIMARY_CATS) \cup {OTHERS})

(***************************************************************************)
(* Claims about the aggregation, checked under SpecAgg.                    *)
(***************************************************************************)
Summarized == pc \in {"efficiency", "done"}

\* the rows of a contributor
RowsOf(a) == {i \in DOMAIN df : df[i].Assignee = a}

\* the days on which a contributor's rows carry more than one category
SwitchDays(a) ==
    {d \in {df[i].Date : i \in RowsOf(a)} :
        \E i, j \in RowsOf(a) :
            df[i].Date = d /\ df[j].Date = d /\ df[i].Category # df[j].Category}

\* C1: for every contributor in the rows, ContextSwitchDays of the user
\* summary is the number of distinct days on which the contributor's rows
\* carry more than one category; it is present, and 0, when there is none.
C1_ContextSwitchDays ==
    Summarized =>
        \A a \in AssigneesOf(df) :
            /\ a \in DOMAIN user_summary.rows
            /\ ContextSwitchDays \in DOMAIN user_summary.rows[a]
            /\ user_summary.rows[a][ContextSwitchDays] = Cardinality(SwitchDays(a))

\* C1 witness: one contributor with two categories on one day and a switch
\* day, and another with rows and an explicit 0.
C1_Witness ==
    /\ Summarized
    /\ \E a, b \in AssigneesOf(df) :
          /\ Cardinality(SwitchDays(a)) = 1
          /\ user_summary.rows[a][ContextSwitchDays] = 1
          /\ SwitchDays(b) = {}
          /\ user_summary.rows[b][ContextSwitchDays] = 0

\* the number of a contributor's rows in a category
CountIn(a, c) == Cardinality({i \in RowsOf(a) : df[i].Category = c})

\* C4: the user summary has one row per contributor and the columns, in
\* this order, of the first three configured primary categories, the
\* catch-all and Total; each category column counts the contributor's rows
\* in that category and Total is the sum of the four.
C4_ConfiguredColumns ==
    Summarized =>
        LET cols == <<PRIMARY_CATS[1], PRIMARY_CATS[2], PRIMARY_CATS[3], OTHERS>>
        IN  /\ SubSeq(user_summary.columns, 1, 5) = cols \o <<Total>>
            /\ DOMAIN user_summary.rows = AssigneesOf(df)
            /\ \A a \in AssigneesOf(df) :
                  /\ \A k \in 1..4 : user_summary.rows[a][cols[k]] = CountIn(a, cols[k])
                  /\ user_summary.rows[a][Total] =
                         CountIn(a, cols[1]) + CountIn(a, cols[2])
                       + CountIn(a, cols[3]) + CountIn(a, cols[4])

(***************************************************************************)
(* Claims about the efficiency block, checked under SpecEff.               *)
(***************************************************************************)
Done == pc = "done"

\* the (contributor, project) pairs of the rows
Groups == {<<df[i].Assignee, df[i].Project>> : i \in DOMAIN df}

RECURSIVE PointsOver(_)
\* the effort points of a set of rows
PointsOver(I) ==
    IF I = {} THEN 0
    ELSE LET i == CHOOSE i \in I : TRUE IN df[i].StoryPoints + PointsOver(I \ {i})

GroupPoints(g) == PointsOver({i \in DOMAIN df : <<df[i].Assignee, df[i].Project>> = g})

\* the records of the efficiency table of a pair
RecordsOf(g) ==
    {i \in DOMAIN efficiency_df :
        <<efficiency_df[i].Assignee, efficiency_df[i].Project>> = g}

\* e, in hundredths, is completed / expected * 100 rounded to two decimals
IsRounded(e, completed, expected) ==
    LET diff == e * expected - 10000 * completed
    IN  2 * diff <= expected /\ -2 * diff <= expected

\* C2: for every group of a known project, the record has completed = the
\* sum of the group's points, working days = 5 - leave days (0 when none is
\* recorded), expected = working days x 3 (YTCS) or x 1 (DS), and efficiency
\* = completed / expected x 100 rounded to two decimals when expected > 0,
\* else 0 if completed is 0 and 100 otherwise.
C2_EfficiencyRecord ==
    Done =>
        \A g \in {x \in Groups : x[2] \in {YTCS, DS}} :
            /\ RecordsOf(g) # {}
            /\ \A i \in RecordsOf(g) :
                  LET r == efficiency_df[i]
                      leave == IF g[1] \in DOMAIN leave_inputs THEN leave_inputs[g[1]] ELSE 0
                      completed == GroupPoints(g)
                      expected == (5 - leave) * (IF g[2] = YTCS THEN 3 ELSE 1)
                  IN  /\ r.CompletedPoints = completed
                      /\ r.LeaveDays = leave
                      /\ r.WorkingDays = 5 - leave
                      /\ r.ExpectedPoints = expected
                      /\ IF expected > 0 THEN IsRounded(r.Efficiency, completed, expected)
                         ELSE r.Efficiency = (IF completed = 0 THEN 0 ELSE 10000)

\* C2 witness: YTCS, 2 leave days, completed 6: expected 9 and 66.67.
C2_Witness ==
    /\ Done
    /\ \E i \in DOMAIN efficiency_df :
          /\ efficiency_df[i].Project = YTCS
          /\ efficiency_df[i].LeaveDays = 2
          /\ efficiency_df[i].CompletedPoints = 6
          /\ efficiency_df[i].ExpectedPoints = 9
          /\ efficiency_df[i].Efficiency = 6667

\* C3: the efficiency table has exactly one record for each pair of the
\* rows whose project is YTCS or DS and none for any other pair; each pair
\* left out has a warning.
C3_KnownProjectsOnly ==
    Done =>
        /\ \A g \in Groups :
              IF g[2] \in {YTCS, DS}
              THEN Cardinality(RecordsOf(g)) = 1
              ELSE /\ RecordsOf(g) = {}
                   /\ \E w \in DOMAIN warnings :
                          <<warnings[w].Assignee, warnings[w].Project>> = g
        /\ \A i \in DOMAIN efficiency_df :
              <<efficiency_df[i].Assignee, efficiency_df[i].Project>> \in Groups

\* C3 witness: rows of a key such as ABC123, of an issue without a key and
\* of a YTCS issue; one record and two warnings.
C3_Witness ==
    /\ Done
    /\ \E i, j, k \in DOMAIN df :
          /\ df[i].Project = <<"A","B","C">>
          /\ df[j].Project = Unknown
          /\ df[k].Project = YTCS
    /\ Len(efficiency_df) = 1
    /\ Len(warnings) = 2

(***************************************************************************)
(* Claims about the normalizer, checked under SpecNorm.                    *)
(***************************************************************************)
\* the configuration names no usable classification source
NoSource ==
    \/ CATEGORY_SOURCE \notin {"labels", "components", "customfield"}
    \/ CATEGORY_SOURCE = "customfield" /\ CUSTOMFIELD_ID = ""

\* C9: every row of build_dataframe has a category that is a configured
\* primary category or OTHERS, in every mode; under an unrecognized mode, or
\* custom-field mode without a field identifier, it is OTHERS.
C9_CategoryClosed ==
    \A i \in DOMAIN df :
        /\ df[i].Category \in Range(PRIMARY_CATS) \cup {OTHERS}
        /\ NoSource => df[i].Category = OTHERS

\* C9 witness: custom-field mode, a row of a primary category and a row of
\* the catch-all.
C9_Witness ==
    /\ CATEGORY_SOURCE = "customfield" /\ CUSTOMFIELD_ID # ""
    /\ \E i, j \in DOMAIN df :
          df[i].Category \in Range(PRIMARY_CATS) /\ df[j].Category = OTHERS

\* the issue's last-updated timestamp is missing or unparseable
Undated(it) == to_datetime(Get(GetOr(it, "fields", EmptyDict), "updated")).nat

\* a sequence without its i-th element
Without(s, i) == SubSeq(s, 1, i - 1) \o SubSeq(s, i + 1, Len(s))

Built == pc \in {"leave_ui", "no_issues", "exception", "summaries", "efficiency", "done"}

\* C10: an issue whose timestamp is missing or unparseable changes nothing:
\* no error is raised for it, and the rows and the tables are those of the
\* collection without it.
C10_UndatedIssueIgnored ==
    Built =>
        \A i \in DOMAIN issues :
            Undated(issues[i]) =>
                LET r == build_dataframe(Without(issues, i))
                IN  /\ [exc |-> error, val |-> df] = r
                    /\ Summarized =>
                          /\ weekly_summary = WeeklySummary(r.val)
                          /\ per_day = PerDay(r.val)
                          /\ user_summary = UserSummary(WeeklySummary(r.val), PerDay(r.val))
                    /\ Done => efficiency_df = EfficiencySummaryOf(r.val, leave_inputs).data

(***************************************************************************)
(* Claims about the session, checked under SpecSession.                    *)
(***************************************************************************)
\* the efficiency records of assignee a
RecordsFor(a) == {i \in DOMAIN efficiency_df : efficiency_df[i].Assignee = a}

\* C11: after any sequence of runs, leave entries, Reset and refresh clicks,
\* every value of leave_inputs is an integer from 0 to 5, every efficiency
\* record has working days from 0 to 5 and expected points that are not
\* negative, and a contributor without recorded leave, Unassigned included,
\* has 0 leave days and 5 working days.
C11_LeaveBounded ==
    /\ \A a \in DOMAIN leave_inputs : leave_inputs[a] \in 0..5
    /\ \A i \in DOMAIN efficiency_df :
          LET rec == efficiency_df[i]
          IN  /\ rec.WorkingDays \in 0..5
              /\ rec.ExpectedPoints >= 0
              /\ rec.LeaveDays = LeaveOf(leave_inputs, rec.Assignee)
              /\ (rec.Assignee = Unassigned \/ rec.Assignee \notin DOMAIN leave_inputs)
                     => rec.LeaveDays = 0 /\ rec.WorkingDays = 5

\* a leave entry of 5 and a Reset click later, the table holds a record with
\* no working day and no expected point, and a record of Unassigned
C11_Witness ==
    /\ pc = "done"
    /\ interactions >= 2
    /\ last_reset # NoReset
    /\ \E i \in DOMAIN efficiency_df :
          /\ efficiency_df[i].LeaveDays = 5
          /\ efficiency_df[i].WorkingDays = 0
          /\ efficiency_df[i].ExpectedPoints = 0
    /\ \E i \in RecordsFor(Unassigned) :
          /\ Unassigned \notin DOMAIN leave_inputs
          /\ efficiency_df[i].WorkingDays = 5

\* a run after a handled Reset click has computed the efficiency table, and
\* no leave was entered since
AfterReset == pc = "done" /\ last_reset # NoReset

\* C12: when the efficiency table is computed after a Reset click for a
\* contributor, the leave recorded for that contributor is 0, whatever was
\* entered before, and the leave recorded for every other contributor of
\* the table is what the run of the click recorded for them.
C12_ResetClears ==
    AfterReset =>
        /\ LeaveOf(leave_inputs, last_reset.a) = 0
        /\ \A i \in RecordsFor(last_reset.a) : efficiency_df[i].LeaveDays = 0
        /\ \A b \in (DOMAIN last_reset.before \cap AssigneesOf(df)) \ {last_reset.a} :
              leave_inputs[b] = last_reset.before[b]

(***************************************************************************)
(* Claims about the failure and empty outcomes of a run.                   *)
(***************************************************************************)
\* C13: if a request of the run failed, while discovering the active sprint
\* or while fetching the issues, then normalization, aggregation and the
\* efficiency calculation have not run, and a run that has ended has ended
\* in the error state of the failed fetch.
C13_FailureStopsRun ==
    request_failed =>
        /\ ~Built
        /\ Ended => (pc = "fetch_failed" /\ error # "")

\* the fetch returned only issues without a parseable `updated`, or none
NothingDated == \A i \in DOMAIN issues : Undated(issues[i])

\* C14: when the fetch succeeds and no issue has a parseable timestamp, or
\* there is no issue, the run ends without an error, in a state other than
\* that of a failed fetch, with no row, no summary, no per-day and no
\* efficiency record, and with leave_inputs as it was.
C14_EmptyOutcome ==
    (Built /\ NothingDated) =>
        /\ pc = "no_issues"
        /\ error = ""
        /\ df = <<>>
        /\ weekly_summary = {} /\ per_day = {} /\ user_summary = NoTable
        /\ efficiency_df = <<>>
        /\ leave_inputs = NoLeave

(***************************************************************************)
(* A claim about the Total column, checked under SpecAgg.                  *)
(***************************************************************************)
RECURSIVE TotalOver(_)
\* the sum of the Total of the contributors of S
TotalOver(S) ==
    IF S = {} THEN 0
    ELSE LET a == CHOOSE x \in S : TRUE
         IN  user_summary.rows[a][Total] + TotalOver(S \ {a})

\* C15: under every configured category list, the default list of four
\* included, the Total of each contributor is the number of that
\* contributor's rows, and the Totals add up to the number of rows.
C15_TotalCountsRows ==
    Summarized =>
        /\ DOMAIN user_summary.rows = AssigneesOf(df)
        /\ \A a \in AssigneesOf(df) :
              user_summary.rows[a][Total] = Cardinality(RowsOf(a))
        /\ TotalOver(AssigneesOf(df)) = Len(df)

(***************************************************************************)
(* A claim about the pagination loop, checked under SpecFetch.             *)
(***************************************************************************)
\* while the loop goes on, every request so far added a page that was not
\* empty to the offset, and the offset is below the largest total
Progressing ==
    fetch_pc = "loop" =>
        /\ start_at = Len(all_issues)
        /\ requests <= start_at
        /\ start_at < MaxTotal

\* an iteration leaves the loop, or moves the offset up by the size of the
\* page it appended, which is not empty
Advances ==
    (fetch_pc = "loop" /\ fetch_pc' = "loop") =>
        /\ start_at' > start_at
        /\ start_at' - start_at = Len(all_issues') - Len(all_issues)

\* the loop returned after faithful responses only
ReturnedAll == (fetch_pc = "returned" /\ faithful) => all_issues = tracker

\* C16: for every sequence of 200 responses with totals up to MaxTotal the
\* loop ends, each iteration either leaving it or moving start_at up by the
\* size of the page received; and when every response was the page of the
\* matching issues at the requested offset with the true total, the result
\* is the matching issues, each once, in order.
C16_Pagination ==
    /\ []Progressing
    /\ [][Advances]_vars
    /\ []ReturnedAll
    /\ <>(fetch_pc # "loop")

\* three matching issues came back in more than one page
C16_Witness ==
    /\ fetch_pc = "returned"
    /\ faithful
    /\ requests >= 2
    /\ Len(tracker) = 3
    /\ all_issues = tracker

====
